---- MODULE Spec2Model ----
(***************************************************************************)
(* Blogs-Backend: signup / login (authController.js), the article routes   *)
(* (articleRoutes.js), the ownership gate (checkOwnership.js) and the      *)
(* article handlers (articleController.js), over a MySQL store whose       *)
(* schema is given in the README.                                          *)
(*                                                                         *)
(* Every request occupies one slot.  A handler is cut at its awaits: one   *)
(* action runs the code from one await to the next, the awaited call       *)
(* included.                                                               *)
(***************************************************************************)
EXTENDS Integers, Sequences, FiniteSets, TLC

VARIABLES
    users,          \* table users, rows in insertion order
    articles,       \* table articles, rows in insertion order
    nextArticleId,  \* AUTO_INCREMENT counter of table articles
    issued,         \* claim sets the token issuer has signed so far
    req,            \* req[r]: the request in slot r (route, body, token, params, user)
    pc,             \* pc[r]: the middleware, handler or await point slot r is at
    local,          \* local[r]: the handler's local variables that live across awaits
    res,            \* res[r]: the response sent for slot r
    log,            \* log[r]: the errors written with console.error for slot r
    calls,          \* calls[r]: the store / hasher / issuer calls slot r has made
    ran,            \* ran[r]: the middlewares and handlers entered for slot r
    faults,         \* number of unexpected collaborator failures so far
    traffic         \* the requests the clients of this run send: "any", "well-formed",
                    \* "logins and gates" or "paths"

vars == <<users, articles, nextArticleId, issued, req, pc, local, res, log, calls, ran,
          faults, traffic>>

\* ------------------------------------------------------------------ bounds
MaxRequests == 3
MaxArticleRequests == 2
MaxFaults == 1

Slots == 1..MaxRequests

\* ------------------------------------------------------------ JS values
Undefined == [t |-> "undefined", v |-> ""]
Str(s) == [t |-> "string", v |-> s]
Num(s) == [t |-> "number", v |-> s]

\* !x is false exactly for a truthy x
Truthy(x) ==
    CASE x.t = "undefined" -> FALSE
      [] x.t = "string" -> x.v # ""
      [] x.t = "number" -> x.v # "0"

IsString(x) == x.t = "string"

\* ------------------------------------------------------------ responses
NoResponse == [status |-> 0, body |-> [success |-> FALSE, message |-> ""]]

Fail(status, message) ==
    [status |-> status, body |-> [success |-> FALSE, message |-> message]]

ServerErrorLeaky(error) == Fail(500, error)

\* the body of every catch block: the error goes to the log only
ServerError(error) == Fail(500, "Server error")

Ok(status, message) ==
    [status |-> status, body |-> [success |-> TRUE, message |-> message]]

\* ---------------------------------------------------------------- store
\* SELECT ... FROM users WHERE email = ?
SelectUsersByEmail(table, email) == SelectSeq(table, LAMBDA u : u.email = email)

\* users.email is declared UNIQUE: the INSERT of a second row with the same
\* email is refused by the store (ER_DUP_ENTRY)
EmailTakenNoConstraint(table, email) == FALSE

EmailTaken(table, email) == \E i \in 1..Len(table) : table[i].email = email

\* users.id is AUTO_INCREMENT; no statement of the program deletes a user
InsertId(table) == Len(table) + 1

UserRowSwapped(id, username, email, password) ==
    [id |-> id, username |-> email, email |-> username, password |-> password]

\* INSERT INTO users (username, email, password) VALUES (?, ?, ?)
UserRow(id, username, email, password) ==
    [id |-> id, username |-> username, email |-> email, password |-> password]

Null == [t |-> "null", v |-> ""]

\* query() binds undefined as NULL
SqlValue(x) == IF x.t = "undefined" THEN Null ELSE x

ArticleRow(id, author_id, title, content, summary, category, tags) ==
    [id |-> id, author_id |-> author_id, title |-> SqlValue(title),
     content |-> SqlValue(content), summary |-> SqlValue(summary),
     category |-> SqlValue(category), tags |-> SqlValue(tags)]

\* SELECT author_id FROM articles WHERE id = ?
SelectArticleById(table, id) == SelectSeq(table, LAMBDA a : a.id = id)

UpdateArticleRowSetsAuthor(a, id, title, content, summary, category, tags) ==
    IF a.id = id
    THEN ArticleRow(a.id, id, title, content, summary, category, tags)
    ELSE a

UpdateArticleRowStaleSummary(a, id, title, content, summary, category, tags) ==
    IF a.id = id
    THEN [ArticleRow(a.id, a.author_id, title, content, summary, category, tags)
             EXCEPT !.summary = a.summary]
    ELSE a

\* UPDATE articles SET title, content, summary, category, tags WHERE id = ?
\* (author_id is not in the SET list)
UpdateArticleRow(a, id, title, content, summary, category, tags) ==
    IF a.id = id
    THEN ArticleRow(a.id, a.author_id, title, content, summary, category, tags)
    ELSE a

UpdateArticles(table, id, title, content, summary, category, tags) ==
    [i \in 1..Len(table) |->
        UpdateArticleRow(table[i], id, title, content, summary, category, tags)]

\* DELETE FROM articles WHERE id = ?
DeleteArticles(table, id) == SelectSeq(table, LAMBDA a : a.id # id)

\* ... FROM articles a JOIN users u ON a.author_id = u.id
\* (an inner join: a row of articles without its user row is not in the result)
JoinAuthor(table, people) ==
    LET joined == SelectSeq(table, LAMBDA a : \E k \in 1..Len(people) : people[k].id = a.author_id)
    IN  [i \in 1..Len(joined) |->
            LET u == SelectSeq(people, LAMBDA p : p.id = joined[i].author_id)[1]
            IN  [article |-> joined[i], username |-> u.username, email |-> u.email]]

Reverse(seq) == [i \in 1..Len(seq) |-> seq[Len(seq) + 1 - i]]

\* --------------------------------------------------------------- hasher
Salts == {"salt1"}

NoHash == [salt |-> "", digest |-> <<>>]

Digest(plaintext, salt) == <<salt, plaintext>>

\* bcrypt.hash(password, 10): a salted one-way digest that carries its salt
Hash(plaintext, salt) == [salt |-> salt, digest |-> Digest(plaintext, salt)]

\* bcrypt.compare(password, user.password)
Compare(plaintext, hash) == Digest(plaintext, hash.salt) = hash.digest

\* --------------------------------------------------------------- tokens
NoClaims == [id |-> 0, email |-> ""]

NoToken == [kind |-> "none", claims |-> NoClaims]

\* generateToken(user): signs the claim set {id, email} of its argument
GenerateToken(user) == [id |-> user.id, email |-> user.email]

Bearer(claims) == [kind |-> "valid", claims |-> claims]

\* ------------------------------------------------------------- requests
NoUser == [defined |-> FALSE, id |-> 0, email |-> ""]

\* req.body of a request without a JSON body: express.json() of express 5 leaves
\* it undefined
NoBody == [none |-> TRUE]

NoRequest == [route |-> "", body |-> NoBody, token |-> NoToken, id |-> 0, user |-> NoUser]

Request(route, body, token, id) ==
    [route |-> route, body |-> body, token |-> token, id |-> id, user |-> NoUser]

NoLocal == [rows |-> <<>>, hashedPassword |-> NoHash, isMatch |-> FALSE]

Passwords == {"pw1", "pw2"}

SignupBody(username, email, password) ==
    [username |-> username, email |-> email, password |-> password]

SignupBodies ==
    {SignupBody(Str("al"), Str("a@x.com"), Str("pw1")),
     SignupBody(Str("bo"), Str("b@x.com"), Str("pw1"))}
    \cup {SignupBody(Undefined, Str("a@x.com"), Str("pw1")),
          SignupBody(Str("al"), Str(""), Str("pw1")),
          SignupBody(Str("al"), Str("a@x.com"), Undefined),
          SignupBody(Str("al"), Str("b@x.com"), Num("7"))}

LoginBody(email, password) == [email |-> email, password |-> password]

LoginBodies ==
    {LoginBody(Str("a@x.com"), Str(p)) : p \in Passwords}
    \cup {LoginBody(Str("b@x.com"), Str("pw1")),
          LoginBody(Undefined, Str("pw1")),
          LoginBody(Str("a@x.com"), Str("")),
          LoginBody(Str("a@x.com"), Num("7"))}

\* content.substring(0, 150) + "..."
SummaryLength == 150

Min(a, b) == IF a < b THEN a ELSE b

Substring(s, from, to) == SubSeq(s, from + 1, Min(to, Len(s)))

Summary(content) == Str(Substring(content.v, 0, SummaryLength) \o "...")

ArticleBody(title, content, category, tags) ==
    [title |-> title, content |-> content, category |-> category, tags |-> tags]

ShortContent == "hello world"

\* 160 characters
LongContent ==
    "0123456789012345678901234567890123456789" \o
    "0123456789012345678901234567890123456789" \o
    "0123456789012345678901234567890123456789" \o
    "0123456789012345678901234567890123456789"

BodyA == ArticleBody(Str("t1"), Str(ShortContent), Str("tech"), Undefined)
BodyB == ArticleBody(Str("t2"), Str(LongContent), Str("life"), Str("x,y"))

BadBodies ==
    {ArticleBody(Undefined, Str(ShortContent), Str("tech"), Undefined),
     ArticleBody(Str("t1"), Str(""), Str("tech"), Undefined),
     ArticleBody(Str("t1"), Str(ShortContent), Undefined, Undefined),
     ArticleBody(Str("t1"), Num("7"), Str("tech"), Undefined)}

ArticleIds == {1, 2}

\* the claim sets a token of this deployment can carry
Claims == {[id |-> 1, email |-> "a@x.com"], [id |-> 2, email |-> "b@x.com"],
           [id |-> 1, email |-> "b@x.com"], [id |-> 2, email |-> "a@x.com"]}

GoodTokens == {Bearer(c) : c \in Claims}

FirstUserTokens == {t \in GoodTokens : t.claims.id = 1}

UnverifiableTokens == {NoToken, [kind |-> "malformed", claims |-> NoClaims]}

BadTokens ==
    UnverifiableTokens
    \cup {[kind |-> "expired", claims |-> t.claims] : t \in FirstUserTokens}

ArticleRequests ==
    {Request("POST /articles", BodyA, t, 0) : t \in GoodTokens \cup BadTokens}
    \cup {Request("POST /articles", b, t, 0) :
              b \in BadBodies \cup {BodyB, NoBody}, t \in FirstUserTokens}
    \cup {Request("GET /articles", NoBody, NoToken, 0)}
    \cup {Request("GET /articles/:id", NoBody, t, id) :
              t \in UnverifiableTokens \cup FirstUserTokens, id \in ArticleIds}
    \cup {Request("PUT /articles/:id", BodyB, t, id) : t \in GoodTokens, id \in ArticleIds}
    \cup {Request("PUT /articles/:id", b, t, 1) :
              b \in {c \in BadBodies : Truthy(c.title) /\ Truthy(c.category)} \cup {NoBody},
              t \in FirstUserTokens}
    \cup {Request("PUT /articles/:id", BodyB, t, 1) : t \in BadTokens}
    \cup {Request("DELETE /articles/:id", NoBody, t, id) : t \in GoodTokens, id \in ArticleIds}
    \cup {Request("DELETE /articles/:id", NoBody, t, 1) : t \in BadTokens}

AuthRequests ==
    {Request("POST /auth/signup", b, NoToken, 0) : b \in SignupBodies \cup {NoBody}}
    \cup {Request("POST /auth/login", b, NoToken, 0) : b \in LoginBodies \cup {NoBody}}

\* one request per route that passes every validation, sent by the first user
WellFormedRequests ==
    LET t == Bearer([id |-> 1, email |-> "a@x.com"]) IN
    {Request("POST /auth/signup", SignupBody(Str("al"), Str("a@x.com"), Str("pw1")), NoToken, 0),
     Request("POST /auth/login", LoginBody(Str("a@x.com"), Str("pw1")), NoToken, 0),
     Request("POST /articles", BodyA, t, 0),
     Request("GET /articles", NoBody, NoToken, 0),
     Request("GET /articles/:id", NoBody, NoToken, 1),
     Request("PUT /articles/:id", BodyB, t, 1),
     Request("DELETE /articles/:id", NoBody, t, 1)}

\* logins of every outcome, and PUT and DELETE requests of every outcome of the
\* ownership gate, for a store in which the first user has posted article 1
LoginAndGateRequests ==
    LET t1 == Bearer([id |-> 1, email |-> "a@x.com"])
        t2 == Bearer([id |-> 2, email |-> "b@x.com"])
    IN
    {Request("POST /auth/login", b, NoToken, 0) :
        b \in {LoginBody(Str("a@x.com"), Str("pw1")), LoginBody(Str("a@x.com"), Str("pw2")),
               LoginBody(Str("c@x.com"), Str("pw1")), LoginBody(Undefined, Str("pw1")),
               NoBody}}
    \cup {Request("PUT /articles/:id", BodyB, t1, 1),
          Request("PUT /articles/:id", BodyB, t2, 1),
          Request("DELETE /articles/:id", NoBody, t1, 1),
          Request("DELETE /articles/:id", NoBody, t1, 2)}

\* the well-formed requests and, for the paths they do not take, one request each
\* that fails a validation, a gate or a type check
PathRequests ==
    LET t == Bearer([id |-> 1, email |-> "a@x.com"]) IN
    WellFormedRequests
    \cup {Request("POST /auth/signup", SignupBody(Undefined, Str("a@x.com"), Str("pw1")), NoToken, 0),
          Request("POST /auth/login", LoginBody(Str("a@x.com"), Str("pw2")), NoToken, 0),
          Request("POST /auth/login", LoginBody(Str("a@x.com"), Str("")), NoToken, 0),
          Request("POST /articles", BodyA, NoToken, 0),
          Request("PUT /articles/:id", ArticleBody(Str("t1"), Num("7"), Str("tech"), Undefined), t, 1)}

\* --------------------------------------------------------------- routes
\* app.use("/api/auth", authRoutes)
ChainNoOwnership(route) ==
    CASE route = "POST /auth/signup" -> <<"signup">>
      [] route = "POST /auth/login" -> <<"login">>
      [] route = "POST /articles" -> <<"verifyJWT", "createArticle">>
      [] route = "GET /articles" -> <<"getAllArticles">>
      [] route = "GET /articles/:id" -> <<"getArticleById">>
      [] route = "PUT /articles/:id" -> <<"verifyJWT", "updateArticle">>
      [] route = "DELETE /articles/:id" -> <<"verifyJWT", "checkOwnership", "deleteArticle">>
      [] OTHER -> <<>>

ChainNoAuthentication(route) ==
    CASE route = "POST /auth/signup" -> <<"signup">>
      [] route = "POST /auth/login" -> <<"login">>
      [] route = "POST /articles" -> <<"verifyJWT", "createArticle">>
      [] route = "GET /articles" -> <<"getAllArticles">>
      [] route = "GET /articles/:id" -> <<"getArticleById">>
      [] route = "PUT /articles/:id" -> <<"verifyJWT", "checkOwnership", "updateArticle">>
      [] route = "DELETE /articles/:id" -> <<"checkOwnership", "deleteArticle">>
      [] OTHER -> <<>>

ChainGetByIdAuthenticated(route) ==
    CASE route = "POST /auth/signup" -> <<"signup">>
      [] route = "POST /auth/login" -> <<"login">>
      [] route = "POST /articles" -> <<"verifyJWT", "createArticle">>
      [] route = "GET /articles" -> <<"getAllArticles">>
      [] route = "GET /articles/:id" -> <<"verifyJWT", "getArticleById">>
      [] route = "PUT /articles/:id" -> <<"verifyJWT", "checkOwnership", "updateArticle">>
      [] route = "DELETE /articles/:id" -> <<"verifyJWT", "checkOwnership", "deleteArticle">>
      [] OTHER -> <<>>

\* the routes (auth routes as mounted in app.js, articleRoutes.js 16-20)
Chain(route) ==
    CASE route = "POST /auth/signup" -> <<"signup">>
      [] route = "POST /auth/login" -> <<"login">>
      [] route = "POST /articles" -> <<"verifyJWT", "createArticle">>
      [] route = "GET /articles" -> <<"getAllArticles">>
      [] route = "GET /articles/:id" -> <<"getArticleById">>
      [] route = "PUT /articles/:id" -> <<"verifyJWT", "checkOwnership", "updateArticle">>
      [] route = "DELETE /articles/:id" -> <<"verifyJWT", "checkOwnership", "deleteArticle">>
      [] OTHER -> <<>>

\* the middleware next() runs after m on this route
After(route, m) ==
    LET chain == Chain(route)
        i == CHOOSE k \in 1..Len(chain) : chain[k] = m
    IN  chain[i + 1]

\* authController.js 81-84: no user has this email
UnknownEmailResponse == Fail(400, "Invalid credentials")

WrongPasswordResponseDistinct == Fail(401, "Wrong password")

\* authController.js 93-96: the password does not match
WrongPasswordResponse == Fail(400, "Invalid credentials")

GateDecisionForbiddenFirst(rows, user) ==
    IF Len(rows) = 0 \/ ~user.defined \/ rows[1].author_id # user.id THEN "403" ELSE "next"

\* checkOwnership.js 12-27: 404 before the comparison, then the strict comparison
GateDecision(rows, user) ==
    IF Len(rows) = 0 THEN "404"
    ELSE IF ~user.defined THEN "TypeError"
    ELSE IF rows[1].author_id # user.id THEN "403"
    ELSE "next"

\* ------------------------------------------------------------- plumbing
Send(r, response) ==
    /\ res' = [res EXCEPT ![r] = response]
    /\ pc' = [pc EXCEPT ![r] = "done"]

CatchSilently(r, error) ==
    /\ log' = [log EXCEPT ![r] = Append(@, error)]
    /\ pc' = [pc EXCEPT ![r] = "done"]
    /\ UNCHANGED res

\* catch (error) { console.error(error); res.status(500).json(...) }
Catch(r, error) ==
    /\ log' = [log EXCEPT ![r] = Append(@, error)]
    /\ Send(r, ServerError(error))

Call(r, name) == calls' = [calls EXCEPT ![r] = Append(@, name)]

Enter(r, name) == ran' = [ran EXCEPT ![r] = Append(@, name)]

\* an unexpected failure of a collaborator (store down, hasher or signer error)
Unexpected == faults < MaxFaults /\ faults' = faults + 1

\* ----------------------------------------------------------------- Init
Init ==
    /\ users = <<>>
    /\ articles = <<>>
    /\ nextArticleId = 1
    /\ issued = {}
    /\ req = [r \in Slots |-> NoRequest]
    /\ pc = [r \in Slots |-> "new"]
    /\ local = [r \in Slots |-> NoLocal]
    /\ res = [r \in Slots |-> NoResponse]
    /\ log = [r \in Slots |-> <<>>]
    /\ calls = [r \in Slots |-> <<>>]
    /\ ran = [r \in Slots |-> <<>>]
    /\ faults = 0
    /\ traffic = "any"

\* the router hands an arriving request to the first middleware of its route,
\* and next() hands it to the one after; slots are taken in order of arrival
\* a token that verifies, or that has expired, was signed by this server
Signed(request) ==
    request.token.kind \in {"valid", "expired"} => request.token.claims \in issued

ArticleRoutes ==
    {"POST /articles", "GET /articles", "GET /articles/:id",
     "PUT /articles/:id", "DELETE /articles/:id"}

ArticleRequestsSoFar == Cardinality({q \in Slots : req[q].route \in ArticleRoutes})

Middlewares ==
    {"signup", "login", "verifyJWT", "checkOwnership", "createArticle",
     "getAllArticles", "getArticleById", "updateArticle", "deleteArticle"}

\* the requests the router hands to middleware m first
Entering ==
    [t \in {"any", "well-formed", "logins and gates", "paths"} |->
        [m \in Middlewares |->
            {q \in (CASE t = "any" -> AuthRequests \cup ArticleRequests
                      [] t = "well-formed" -> WellFormedRequests
                      [] t = "logins and gates" -> LoginAndGateRequests
                      [] t = "paths" -> PathRequests) :
                Head(Chain(q.route)) = m}]]

\* the requests middleware m can be run on in slot r: the one next() hands it, or
\* one that arrives (slots are taken in order of arrival)
Arriving(r, m) ==
    IF pc[r] = m THEN {req[r]}
    ELSE IF pc[r] # "new" \/ (\E q \in Slots : q < r /\ pc[q] = "new") THEN {}
    ELSE LET full == ArticleRequestsSoFar >= MaxArticleRequests IN
         {q \in Entering[traffic][m] : Signed(q) /\ (q.route \in ArticleRoutes => ~full)}

\* --------------------------------------------------------------- signup
\* authController.js 6-29: validation, then the lookup by email
signup(r) ==
    \E request \in Arriving(r, "signup") :
        /\ req' = [req EXCEPT ![r] = request]
        /\ Enter(r, "signup")
        /\ LET body == request.body IN
           IF body = NoBody
           THEN /\ Catch(r, "TypeError: Cannot destructure property of undefined")
                /\ UNCHANGED <<local, calls, faults>>
           ELSE IF ~Truthy(body.username) \/ ~Truthy(body.email) \/ ~Truthy(body.password)
           THEN /\ Send(r, Fail(400, "All fields are required"))
                /\ UNCHANGED <<local, log, calls, faults>>
           ELSE /\ Call(r, "SELECT users")
                /\ \/ /\ Unexpected
                      /\ Catch(r, "store failure")
                      /\ UNCHANGED local
                   \/ /\ LET existingUser == SelectUsersByEmail(users, body.email.v) IN
                         IF Len(existingUser) > 0
                         THEN /\ Send(r, Fail(400, "Email already registered"))
                              /\ local' = [local EXCEPT ![r].rows = existingUser]
                         ELSE /\ pc' = [pc EXCEPT ![r] = "signup_hash"]
                              /\ local' = [local EXCEPT ![r].rows = existingUser]
                              /\ UNCHANGED res
                      /\ UNCHANGED <<log, faults>>
        /\ UNCHANGED <<traffic, users, articles, nextArticleId, issued>>

\* authController.js 31-32: bcrypt.hash(password, 10)
signup_hash(r) ==
    /\ pc[r] = "signup_hash"
    /\ Call(r, "bcrypt.hash")
    /\ \/ /\ Unexpected
          /\ Catch(r, "hasher failure")
          /\ UNCHANGED local
       \/ /\ ~IsString(req[r].body.password)
          /\ Catch(r, "data must be a string or Buffer")
          /\ UNCHANGED <<local, faults>>
       \/ /\ IsString(req[r].body.password)
          /\ \E salt \in Salts :
                local' = [local EXCEPT ![r].hashedPassword = Hash(req[r].body.password.v, salt)]
          /\ pc' = [pc EXCEPT ![r] = "signup_insert"]
          /\ UNCHANGED <<res, log, faults>>
    /\ UNCHANGED <<traffic, users, articles, nextArticleId, issued, req, ran>>

\* authController.js 34-50: the INSERT, then the token and the 201
signup_insert(r) ==
    /\ pc[r] = "signup_insert"
    /\ LET body == req[r].body
           insertId == InsertId(users)
       IN
       \/ /\ Unexpected
          /\ Call(r, "INSERT users")
          /\ Catch(r, "store failure")
          /\ UNCHANGED <<users, issued>>
       \/ /\ EmailTaken(users, body.email.v)
          /\ Call(r, "INSERT users")
          /\ Catch(r, "ER_DUP_ENTRY")
          /\ UNCHANGED <<users, issued, faults>>
       \/ /\ ~EmailTaken(users, body.email.v)
          /\ users' = Append(users, UserRow(insertId, body.username.v, body.email.v,
                                            local[r].hashedPassword))
          /\ calls' = [calls EXCEPT ![r] = @ \o <<"INSERT users", "generateToken">>]
          /\ \/ /\ Unexpected
                /\ Catch(r, "signer failure")
                /\ UNCHANGED issued
             \/ /\ LET token == GenerateToken([id |-> insertId, email |-> body.email.v]) IN
                   /\ issued' = issued \cup {token}
                   /\ Send(r, [status |-> 201,
                               body |-> [success |-> TRUE,
                                         message |-> "User registered successfully",
                                         token |-> token]])
                /\ UNCHANGED <<log, faults>>
    /\ UNCHANGED <<traffic, articles, nextArticleId, req, local, ran>>

\* ---------------------------------------------------------------- login
\* authController.js 62-87: validation, then the lookup by email
login(r) ==
    \E request \in Arriving(r, "login") :
        /\ req' = [req EXCEPT ![r] = request]
        /\ Enter(r, "login")
        /\ LET body == request.body IN
           IF body = NoBody
           THEN /\ Catch(r, "TypeError: Cannot destructure property of undefined")
                /\ UNCHANGED <<local, calls, faults>>
           ELSE IF ~Truthy(body.email) \/ ~Truthy(body.password)
           THEN /\ Send(r, Fail(400, "Email and password are required"))
                /\ UNCHANGED <<local, log, calls, faults>>
           ELSE /\ Call(r, "SELECT users")
                /\ \/ /\ Unexpected
                      /\ Catch(r, "store failure")
                      /\ UNCHANGED local
                   \/ /\ LET found == SelectUsersByEmail(users, body.email.v) IN
                         IF Len(found) = 0
                         THEN /\ Send(r, UnknownEmailResponse)
                              /\ local' = [local EXCEPT ![r].rows = found]
                         ELSE /\ pc' = [pc EXCEPT ![r] = "login_compare"]
                              /\ local' = [local EXCEPT ![r].rows = found]
                              /\ UNCHANGED res
                      /\ UNCHANGED <<log, faults>>
        /\ UNCHANGED <<traffic, users, articles, nextArticleId, issued>>

\* authController.js 89-106: bcrypt.compare, then the token and the 200
login_compare(r) ==
    /\ pc[r] = "login_compare"
    /\ LET body == req[r].body
           user == local[r].rows[1]
       IN
       \/ /\ Unexpected
          /\ Call(r, "bcrypt.compare")
          /\ Catch(r, "hasher failure")
          /\ UNCHANGED <<local, issued>>
       \/ /\ ~IsString(body.password)
          /\ Call(r, "bcrypt.compare")
          /\ Catch(r, "data and hash must be strings")
          /\ UNCHANGED <<local, issued, faults>>
       \/ /\ IsString(body.password)
          /\ ~Compare(body.password.v, user.password)
          /\ Call(r, "bcrypt.compare")
          /\ Send(r, WrongPasswordResponse)
          /\ UNCHANGED <<local, issued, log, faults>>
       \/ /\ IsString(body.password)
          /\ Compare(body.password.v, user.password)
          /\ local' = [local EXCEPT ![r].isMatch = TRUE]
          /\ calls' = [calls EXCEPT ![r] = @ \o <<"bcrypt.compare", "generateToken">>]
          /\ \/ /\ Unexpected
                /\ Catch(r, "signer failure")
                /\ UNCHANGED issued
             \/ /\ LET token == GenerateToken(user) IN
                   /\ issued' = issued \cup {token}
                   /\ Send(r, [status |-> 200,
                               body |-> [success |-> TRUE,
                                         message |-> "Login successful",
                                         token |-> token]])
                /\ UNCHANGED <<log, faults>>
    /\ UNCHANGED <<traffic, users, articles, nextArticleId, req, ran>>

\* ------------------------------------------------------------ verifyJWT
\* the authentication gate: 401 unless the bearer token verifies, else the
\* decoded claims become req.user
verifyJWT(r) ==
    \E request \in Arriving(r, "verifyJWT") :
        /\ Enter(r, "verifyJWT")
        /\ IF request.token.kind # "valid"
           THEN /\ req' = [req EXCEPT ![r] = request]
                /\ Send(r, Fail(401, "Unauthorized"))
           ELSE /\ req' = [req EXCEPT ![r] =
                       [request EXCEPT !.user = [defined |-> TRUE,
                                                 id |-> request.token.claims.id,
                                                 email |-> request.token.claims.email]]]
                /\ pc' = [pc EXCEPT ![r] = After(request.route, "verifyJWT")]
                /\ UNCHANGED res
        /\ UNCHANGED <<traffic, users, articles, nextArticleId, issued, local, log, calls, faults>>

\* ------------------------------------------------------- checkOwnership
checkOwnershipTouches(r) ==
    \E request \in Arriving(r, "checkOwnership") :
        /\ req' = [req EXCEPT ![r] = request]
        /\ Enter(r, "checkOwnership")
        /\ Call(r, "SELECT articles")
        /\ \/ /\ Unexpected
              /\ Catch(r, "store failure")
              /\ UNCHANGED <<local, articles>>
           \/ /\ LET rows == SelectArticleById(articles, request.id)
                     decision == GateDecision(rows, request.user)
                 IN
                 /\ local' = [local EXCEPT ![r].rows = rows]
                 /\ articles' = [a \in 1..Len(articles) |->
                                  IF articles[a].id = request.id
                                  THEN [articles[a] EXCEPT !.category = Str("seen")]
                                  ELSE articles[a]]
                 /\ CASE decision = "404" ->
                            /\ Send(r, Fail(404, "Article not found"))
                            /\ UNCHANGED log
                      [] decision = "403" ->
                            /\ Send(r, Fail(403, "Forbidden: You are not the author"))
                            /\ UNCHANGED log
                      [] decision = "TypeError" ->
                            Catch(r, "TypeError: Cannot read properties of undefined")
                      [] decision = "next" ->
                            /\ pc' = [pc EXCEPT ![r] = After(request.route, "checkOwnership")]
                            /\ UNCHANGED <<res, log>>
              /\ UNCHANGED faults
        /\ UNCHANGED <<traffic, users, nextArticleId, issued>>

\* checkOwnership.js 3-36
checkOwnership(r) ==
    \E request \in Arriving(r, "checkOwnership") :
        /\ req' = [req EXCEPT ![r] = request]
        /\ Enter(r, "checkOwnership")
        /\ Call(r, "SELECT articles")
        /\ \/ /\ Unexpected
              /\ Catch(r, "store failure")
              /\ UNCHANGED local
           \/ /\ LET rows == SelectArticleById(articles, request.id)
                     decision == GateDecision(rows, request.user)
                 IN
                 /\ local' = [local EXCEPT ![r].rows = rows]
                 /\ CASE decision = "404" ->
                            /\ Send(r, Fail(404, "Article not found"))
                            /\ UNCHANGED log
                      [] decision = "403" ->
                            /\ Send(r, Fail(403, "Forbidden: You are not the author"))
                            /\ UNCHANGED log
                      [] decision = "TypeError" ->
                            Catch(r, "TypeError: Cannot read properties of undefined")
                      [] decision = "next" ->
                            /\ pc' = [pc EXCEPT ![r] = After(request.route, "checkOwnership")]
                            /\ UNCHANGED <<res, log>>
              /\ UNCHANGED faults
        /\ UNCHANGED <<traffic, users, articles, nextArticleId, issued>>

\* -------------------------------------------------------- createArticle
\* articleController.js 3-35
createArticle(r) ==
    \E request \in Arriving(r, "createArticle") :
        /\ req' = [req EXCEPT ![r] = request]
        /\ Enter(r, "createArticle")
        /\ LET body == request.body IN
           IF body = NoBody
           THEN /\ Catch(r, "TypeError: Cannot destructure property of undefined")
                /\ UNCHANGED <<articles, nextArticleId, calls, faults>>
           ELSE IF ~Truthy(body.title) \/ ~Truthy(body.content) \/ ~Truthy(body.category)
           THEN /\ Send(r, Fail(400, "Title, content and category are required"))
                /\ UNCHANGED <<articles, nextArticleId, log, calls, faults>>
           ELSE IF ~IsString(body.content)
           THEN /\ Catch(r, "TypeError: content.substring is not a function")
                /\ UNCHANGED <<articles, nextArticleId, calls, faults>>
           ELSE IF ~request.user.defined
           THEN /\ Catch(r, "TypeError: Cannot read properties of undefined")
                /\ UNCHANGED <<articles, nextArticleId, calls, faults>>
           ELSE /\ Call(r, "INSERT articles")
                /\ \/ /\ Unexpected
                      /\ Catch(r, "store failure")
                      /\ UNCHANGED <<articles, nextArticleId>>
                   \/ /\ articles' = Append(articles,
                             ArticleRow(nextArticleId, request.user.id, body.title,
                                        body.content, Summary(body.content),
                                        body.category, body.tags))
                      /\ nextArticleId' = nextArticleId + 1
                      /\ Send(r, [status |-> 201,
                                  body |-> [success |-> TRUE,
                                            message |-> "Article created successfully",
                                            articleId |-> nextArticleId]])
                      /\ UNCHANGED <<log, faults>>
        /\ UNCHANGED <<traffic, users, issued, local>>

\* ------------------------------------------------------- getAllArticles
\* articleController.js 37-58
getAllArticles(r) ==
    \E request \in Arriving(r, "getAllArticles") :
        /\ req' = [req EXCEPT ![r] = request]
        /\ Enter(r, "getAllArticles")
        /\ Call(r, "SELECT articles JOIN users")
        /\ \/ /\ Unexpected
              /\ Catch(r, "store failure")
           \/ /\ LET rows == Reverse(JoinAuthor(articles, users)) IN
                 Send(r, [status |-> 200,
                          body |-> [success |-> TRUE, count |-> Len(rows), data |-> rows]])
              /\ UNCHANGED <<log, faults>>
        /\ UNCHANGED <<traffic, users, articles, nextArticleId, issued, local>>

\* ------------------------------------------------------- getArticleById
\* articleController.js 63-94
getArticleById(r) ==
    \E request \in Arriving(r, "getArticleById") :
        /\ req' = [req EXCEPT ![r] = request]
        /\ Enter(r, "getArticleById")
        /\ Call(r, "SELECT articles JOIN users")
        /\ \/ /\ Unexpected
              /\ Catch(r, "store failure")
           \/ /\ LET rows == JoinAuthor(SelectArticleById(articles, request.id), users) IN
                 IF Len(rows) = 0
                 THEN Send(r, Fail(404, "Article not found"))
                 ELSE Send(r, [status |-> 200, body |-> [success |-> TRUE, data |-> rows[1]]])
              /\ UNCHANGED <<log, faults>>
        /\ UNCHANGED <<traffic, users, articles, nextArticleId, issued, local>>

\* -------------------------------------------------------- updateArticle
\* articleController.js 97-129
updateArticle(r) ==
    \E request \in Arriving(r, "updateArticle") :
        /\ req' = [req EXCEPT ![r] = request]
        /\ Enter(r, "updateArticle")
        /\ LET body == request.body IN
           IF body = NoBody
           THEN /\ Catch(r, "TypeError: Cannot destructure property of undefined")
                /\ UNCHANGED <<articles, calls, faults>>
           ELSE IF ~Truthy(body.title) \/ ~Truthy(body.content) \/ ~Truthy(body.category)
           THEN /\ Send(r, Fail(400, "Title, content and category are required"))
                /\ UNCHANGED <<articles, log, calls, faults>>
           ELSE IF ~IsString(body.content)
           THEN /\ Catch(r, "TypeError: content.substring is not a function")
                /\ UNCHANGED <<articles, calls, faults>>
           ELSE /\ Call(r, "UPDATE articles")
                /\ \/ /\ Unexpected
                      /\ Catch(r, "store failure")
                      /\ UNCHANGED articles
                   \/ /\ articles' = UpdateArticles(articles, request.id, body.title,
                                                    body.content, Summary(body.content),
                                                    body.category, body.tags)
                      /\ Send(r, Ok(200, "Article updated successfully"))
                      /\ UNCHANGED <<log, faults>>
        /\ UNCHANGED <<traffic, users, nextArticleId, issued, local>>

\* -------------------------------------------------------- deleteArticle
\* articleController.js 132-151
deleteArticle(r) ==
    \E request \in Arriving(r, "deleteArticle") :
        /\ req' = [req EXCEPT ![r] = request]
        /\ Enter(r, "deleteArticle")
        /\ Call(r, "DELETE articles")
        /\ \/ /\ Unexpected
              /\ Catch(r, "store failure")
              /\ UNCHANGED articles
           \/ /\ articles' = DeleteArticles(articles, request.id)
              /\ Send(r, Ok(200, "Article deleted successfully"))
              /\ UNCHANGED <<log, faults>>
        /\ UNCHANGED <<traffic, users, nextArticleId, issued, local>>

\* ------------------------------------------------------- specifications
NextAuth ==
    \/ \E r \in Slots : signup(r)
    \/ \E r \in Slots : signup_hash(r)
    \/ \E r \in Slots : signup_insert(r)
    \/ \E r \in Slots : login(r)
    \/ \E r \in Slots : login_compare(r)

NextArticles ==
    \/ \E r \in Slots : verifyJWT(r)
    \/ \E r \in Slots : checkOwnership(r)
    \/ \E r \in Slots : createArticle(r)
    \/ \E r \in Slots : getAllArticles(r)
    \/ \E r \in Slots : getArticleById(r)
    \/ \E r \in Slots : updateArticle(r)
    \/ \E r \in Slots : deleteArticle(r)

Next == NextAuth \/ NextArticles

\* the whole server, from an empty store
Spec == Init /\ [][Next]_vars

\* the code slot r runs next, once its request has arrived: the continuation of
\* an await or the middleware that next() named
Continue(r) ==
    /\ pc[r] # "new"
    /\ \/ signup_hash(r) \/ signup_insert(r) \/ login_compare(r)
       \/ checkOwnership(r) \/ createArticle(r) \/ updateArticle(r) \/ deleteArticle(r)

\* the event loop runs every continuation whose awaited call has returned or failed
Fairness == \A r \in Slots : WF_vars(Continue(r))

InitPaths ==
    /\ users = <<>>
    /\ articles = <<>>
    /\ nextArticleId = 1
    /\ issued = {}
    /\ req = [r \in Slots |-> NoRequest]
    /\ pc = [r \in Slots |-> "new"]
    /\ local = [r \in Slots |-> NoLocal]
    /\ res = [r \in Slots |-> NoResponse]
    /\ log = [r \in Slots |-> <<>>]
    /\ calls = [r \in Slots |-> <<>>]
    /\ ran = [r \in Slots |-> <<>>]
    /\ faults = 0
    /\ traffic = "paths"

\* the whole server from an empty store, under those requests and a fair event loop
SpecFair == InitPaths /\ [][Next]_vars /\ Fairness

\* signup and login traffic only, from an empty store
SpecAuth == Init /\ [][NextAuth]_vars

\* a store in which two users have signed up, and their tokens
Registered ==
    <<UserRow(1, "al", "a@x.com", Hash("pw1", "salt1")),
      UserRow(2, "bo", "b@x.com", Hash("pw1", "salt1"))>>

InitArticles ==
    /\ users = Registered
    /\ articles = <<>>
    /\ nextArticleId = 1
    /\ issued = {GenerateToken(Registered[1]), GenerateToken(Registered[2])}
    /\ req = [r \in Slots |-> NoRequest]
    /\ pc = [r \in Slots |-> "new"]
    /\ local = [r \in Slots |-> NoLocal]
    /\ res = [r \in Slots |-> NoResponse]
    /\ log = [r \in Slots |-> <<>>]
    /\ calls = [r \in Slots |-> <<>>]
    /\ ran = [r \in Slots |-> <<>>]
    /\ faults = 0
    /\ traffic = "any"

\* article traffic only, on that store
SpecArticles == InitArticles /\ [][NextArticles]_vars

\* that store after the first user has posted BodyA
Posted ==
    <<ArticleRow(1, 1, BodyA.title, BodyA.content, Summary(BodyA.content),
                 BodyA.category, BodyA.tags)>>

InitPosted ==
    /\ users = Registered
    /\ articles = Posted
    /\ nextArticleId = 2
    /\ issued = {GenerateToken(Registered[1]), GenerateToken(Registered[2])}
    /\ req = [r \in Slots |-> NoRequest]
    /\ pc = [r \in Slots |-> "new"]
    /\ local = [r \in Slots |-> NoLocal]
    /\ res = [r \in Slots |-> NoResponse]
    /\ log = [r \in Slots |-> <<>>]
    /\ calls = [r \in Slots |-> <<>>]
    /\ ran = [r \in Slots |-> <<>>]
    /\ faults = 0
    /\ traffic = "any"

\* article traffic only, on a store that holds one article
SpecPosted == InitPosted /\ [][NextArticles]_vars

\* logins and the requests of the authenticated article routes, on that store
NextLoginAndGate ==
    \/ \E r \in Slots : login(r)
    \/ \E r \in Slots : login_compare(r)
    \/ \E r \in Slots : verifyJWT(r)
    \/ \E r \in Slots : checkOwnership(r)
    \/ \E r \in Slots : updateArticle(r)
    \/ \E r \in Slots : deleteArticle(r)

InitLoginAndGate ==
    /\ users = Registered
    /\ articles = Posted
    /\ nextArticleId = 2
    /\ issued = {GenerateToken(Registered[1]), GenerateToken(Registered[2])}
    /\ req = [r \in Slots |-> NoRequest]
    /\ pc = [r \in Slots |-> "new"]
    /\ local = [r \in Slots |-> NoLocal]
    /\ res = [r \in Slots |-> NoResponse]
    /\ log = [r \in Slots |-> <<>>]
    /\ calls = [r \in Slots |-> <<>>]
    /\ ran = [r \in Slots |-> <<>>]
    /\ faults = 0
    /\ traffic = "logins and gates"

SpecLoginAndGate == InitLoginAndGate /\ [][NextLoginAndGate]_vars

InitWellFormed ==
    /\ users = <<>>
    /\ articles = <<>>
    /\ nextArticleId = 1
    /\ issued = {}
    /\ req = [r \in Slots |-> NoRequest]
    /\ pc = [r \in Slots |-> "new"]
    /\ local = [r \in Slots |-> NoLocal]
    /\ res = [r \in Slots |-> NoResponse]
    /\ log = [r \in Slots |-> <<>>]
    /\ calls = [r \in Slots |-> <<>>]
    /\ ran = [r \in Slots |-> <<>>]
    /\ faults = 0
    /\ traffic = "well-formed"

\* the whole server, from an empty store, under requests that pass every validation
SpecWellFormed == InitWellFormed /\ [][Next]_vars

\* ================================================================ claims
Done(r) == pc[r] = "done"

Last(seq) == seq[Len(seq)]

Contains(seq, x) == \E i \in 1..Len(seq) : seq[i] = x

\* the errors of the collaborators that no input of the request explains
FaultErrors == {"store failure", "hasher failure", "signer failure"}

FailedUnexpectedly(r) == \E i \in 1..Len(log[r]) : log[r][i] \in FaultErrors

IsSignup(r) == req[r].route = "POST /auth/signup"
IsLogin(r) == req[r].route = "POST /auth/login"

NonEmptyString(x) == IsString(x) /\ x.v # ""

ValidSignup(r) ==
    /\ IsSignup(r)
    /\ req[r].body # NoBody
    /\ NonEmptyString(req[r].body.username)
    /\ NonEmptyString(req[r].body.email)
    /\ NonEmptyString(req[r].body.password)

SignupsWith(email) == {r \in Slots : ValidSignup(r) /\ req[r].body.email.v = email}

Conflict(r) == res[r].status = 400 /\ res[r].body.message = "Email already registered"

\* C1: of the valid signups that use one fresh email, whatever the interleaving of
\* their lookup, hash and insert steps, exactly one is answered 201 with a token and
\* every other one is answered 400 'Email already registered' (no collaborator
\* failing unexpectedly).
C1_OneSignupWinsOthersConflict ==
    \A email \in {"a@x.com", "b@x.com"} :
        LET all == SignupsWith(email)
            winners == {r \in all : Done(r) /\ res[r].status = 201}
        IN  ((all # {}) /\ (\A r \in all : Done(r) /\ ~FailedUnexpectedly(r)))
                => /\ Cardinality(winners) = 1
                   /\ \A r \in winners : res[r].body.token.email = email
                   /\ \A r \in all \ winners : Conflict(r)

\* C2: in every reachable state no two rows of the users table have the same email.
C2_UniqueEmails ==
    \A i, j \in 1..Len(users) : users[i].email = users[j].email => i = j

\* two signups with one email both reached their INSERT
C2_Witness ==
    \E r, q \in Slots :
        /\ r # q
        /\ ValidSignup(r) /\ ValidSignup(q)
        /\ req[r].body.email = req[q].body.email
        /\ Contains(calls[r], "INSERT users") /\ Contains(calls[q], "INSERT users")
        /\ res[r].status = 201
        /\ Done(q)

\* ------------------------------------------------------------------- C3
\* the step in which slot r runs m
Runs(r, m) == Len(ran'[r]) = Len(ran[r]) + 1 /\ Last(ran'[r]) = m

FailsUnexpectedlyNow(r) ==
    Len(log'[r]) = Len(log[r]) + 1 /\ Last(log'[r]) \in FaultErrors

ArticleExists(table, id) == \E i \in 1..Len(table) : table[i].id = id

AuthorOf(table, id) == (CHOOSE a \in {table[i] : i \in 1..Len(table)} : a.id = id).author_id

NextCalled(r) == pc'[r] \notin {"done", "new"}

C3_GateStep(r) ==
    LET X == req'[r].id
        U == req'[r].user.id
    IN  /\ ~ArticleExists(articles, X)
            => res'[r].status = 404 /\ ~NextCalled(r)
        /\ (ArticleExists(articles, X) /\ AuthorOf(articles, X) # U)
            => res'[r].status = 403 /\ ~NextCalled(r)
        /\ NextCalled(r)
            => /\ ArticleExists(articles, X) /\ AuthorOf(articles, X) = U
               /\ res'[r] = NoResponse

\* C3: when checkOwnership runs for actor U on article X (its query answering):
\* no article X gives 404 and no next; article X of another author gives 403, never
\* 404, and no next; next is called only if article X exists with authorId = U.
C3_OwnershipGate ==
    [][\A r \in Slots :
          (Runs(r, "checkOwnership") /\ ~FailsUnexpectedlyNow(r)) => C3_GateStep(r)]_vars

\* the gate has refused a non-author on an existing article
C3_Witness ==
    \E r \in Slots :
        /\ Contains(ran[r], "checkOwnership")
        /\ res[r].status = 403
        /\ ArticleExists(articles, req[r].id)
        /\ AuthorOf(articles, req[r].id) # req[r].user.id

\* ------------------------------------------------------------------- C4
RowOf(table, id) == CHOOSE a \in {table[i] : i \in 1..Len(table)} : a.id = id

\* article id is removed, or one of its columns differs, in the next state
ChangedOrRemoved(id) ==
    \/ ~ArticleExists(articles', id)
    \/ RowOf(articles', id) # RowOf(articles, id)

\* slot r completes a PUT or DELETE handler on article id as its author
AuthorMutates(r, id) ==
    /\ pc[r] \in {"updateArticle", "deleteArticle"}
    /\ pc'[r] = "done"
    /\ req[r].route \in {"PUT /articles/:id", "DELETE /articles/:id"}
    /\ req[r].id = id
    /\ req[r].user.defined
    /\ req[r].user.id = AuthorOf(articles, id)

\* C4: an existing article's columns change, and an article leaves the store, only
\* in a step of a PUT or DELETE request whose authenticated actor is its author.
C4_OnlyAuthorMutates ==
    [][\A i \in 1..Len(articles) :
          ChangedOrRemoved(articles[i].id)
              => \E r \in Slots : AuthorMutates(r, articles[i].id)]_vars

\* an author has rewritten the article they posted
C4_Witness ==
    \E r, q \in Slots :
        /\ req[q].route = "POST /articles" /\ res[q].status = 201
        /\ req[q].body = BodyA
        /\ req[r].route = "PUT /articles/:id" /\ res[r].status = 200
        /\ req[r].id = res[q].body.articleId
        /\ ArticleExists(articles, req[r].id)
        /\ RowOf(articles, req[r].id).title = Str("t2")

\* ------------------------------------------------------------------- C5
ProtectedRoutes == {"POST /articles", "PUT /articles/:id", "DELETE /articles/:id"}

\* C5: on POST /articles, PUT /articles/:id and DELETE /articles/:id the
\* authentication gate is the first to run; a request whose token is absent,
\* malformed or expired is answered 401, neither checkOwnership nor the handler
\* runs for it and it sends no statement to the store.
C5_AuthenticationFirst ==
    \A r \in Slots :
        (req[r].route \in ProtectedRoutes /\ pc[r] # "new")
            => /\ ran[r][1] = "verifyJWT"
               /\ req[r].token.kind # "valid"
                    => /\ Done(r)
                       /\ res[r].status = 401
                       /\ ran[r] = <<"verifyJWT">>
                       /\ calls[r] = <<>>

\* a PUT on an existing article was turned away at the authentication gate
C5_Witness ==
    \E r \in Slots :
        /\ req[r].route = "PUT /articles/:id"
        /\ req[r].token.kind \in {"none", "malformed", "expired"}
        /\ res[r].status = 401
        /\ ArticleExists(articles, req[r].id)

\* ------------------------------------------------------------------- C6
\* a login that was answered after its lookup found no user
UnknownEmailLogin(r) ==
    /\ IsLogin(r) /\ Done(r) /\ log[r] = <<>>
    /\ calls[r] = <<"SELECT users">>
    /\ local[r].rows = <<>>

\* a login whose lookup found the user and whose (string) password is not theirs
WrongPasswordLogin(r) ==
    /\ IsLogin(r) /\ Done(r) /\ log[r] = <<>>
    /\ local[r].rows # <<>>
    /\ IsString(req[r].body.password)
    /\ ~Compare(req[r].body.password.v, local[r].rows[1].password)

SignedUp(s) == ValidSignup(s) /\ Done(s) /\ res[s].status = 201

\* slot l is, after this step, a login with the credentials signup s was given
LoginAs(l, s) ==
    /\ req'[l].route = "POST /auth/login"
    /\ req'[l].body # NoBody
    /\ req'[l].body.email = req[s].body.email
    /\ req'[l].body.password = req[s].body.password

C7_LoginStep(l, s) ==
    /\ Runs(l, "login") => pc'[l] = "login_compare"
    /\ (pc[l] = "login_compare" /\ pc'[l] = "done")
        => /\ res'[l].status = 200
           /\ res'[l].body.token = res[s].body.token
           /\ res'[l].body.token.email = req[s].body.email.v
           /\ \E i \in 1..Len(users) :
                 /\ users[i].email = req[s].body.email.v
                 /\ users[i].id = res'[l].body.token.id

\* C7: once a signup has been answered 201, every login step taken afterwards with
\* that signup's email and password succeeds (no collaborator failing unexpectedly):
\* the lookup finds the user, and the answer is 200 with a token whose claims are
\* the user's email and store-assigned id.
C7_LoginAfterSignup ==
    [][\A l \in Slots :
          (pc'[l] # pc[l] /\ req'[l].route = "POST /auth/login")
              => \A s \in Slots :
                    (SignedUp(s) /\ LoginAs(l, s) /\ ~FailsUnexpectedlyNow(l))
                        => C7_LoginStep(l, s)]_vars

\* a user has signed up and then logged in
C7_Witness ==
    \E s, l \in Slots :
        /\ SignedUp(s)
        /\ IsLogin(l) /\ Done(l) /\ res[l].status = 200
        /\ req[l].body.email = req[s].body.email
        /\ req[l].body.password = req[s].body.password
        /\ res[l].body.token = res[s].body.token

\* ------------------------------------------------------------------- C8
\* slot r completes createArticle and the store gives the new row this id
Creates(r, id) ==
    /\ pc[r] = "createArticle" /\ pc'[r] = "done"
    /\ req[r].route = "POST /articles"
    /\ res'[r].status = 201
    /\ res'[r].body.articleId = id

\* C8: a row enters the articles table only in the step of a POST /articles request,
\* with author_id the id of that request's authenticated actor, and no step changes
\* the author_id of a row that stays in the table.
C8_AuthorSetOnceAtCreation ==
    [][/\ \A i \in 1..Len(articles') :
             LET a == articles'[i] IN
             IF ArticleExists(articles, a.id)
             THEN a.author_id = AuthorOf(articles, a.id)
             ELSE \E r \in Slots :
                     /\ Creates(r, a.id)
                     /\ req[r].user.defined
                     /\ req[r].user.id = req[r].token.claims.id
                     /\ a.author_id = req[r].user.id]_vars

\* the second user has posted an article and then rewritten it
C8_Witness ==
    \E r, q \in Slots :
        /\ req[q].route = "POST /articles" /\ res[q].status = 201
        /\ req[q].user.id = 2
        /\ req[r].route = "PUT /articles/:id" /\ res[r].status = 200
        /\ req[r].id = res[q].body.articleId
        /\ ArticleExists(articles, req[r].id)
        /\ RowOf(articles, req[r].id).content = Str(LongContent)
        /\ AuthorOf(articles, req[r].id) = 2

\* ------------------------------------------------------------------- C9
\* C9: no foreseeable failure is answered 500: a request is answered 500 only when
\* a store query, the hasher or the token issuer failed unexpectedly; a failure
\* caused by the request's input or by a duplicate email gets its 4xx response.
C9_No500ForForeseeableFailures ==
    \A r \in Slots : (Done(r) /\ res[r].status = 500) => FailedUnexpectedly(r)

\* ------------------------------------------------------------------ C10
NoRepeats(seq) == \A i, j \in 1..Len(seq) : seq[i] = seq[j] => i = j

\* the call that an error of the log comes from
Raises(call, error) ==
    CASE error = "hasher failure" -> call \in {"bcrypt.hash", "bcrypt.compare"}
      [] error = "signer failure" -> call = "generateToken"
      [] error = "store failure" ->
            call \in {"SELECT users", "INSERT users", "SELECT articles", "INSERT articles",
                      "SELECT articles JOIN users", "UPDATE articles", "DELETE articles"}
      [] OTHER -> FALSE

\* C10: a request in which a store query, the hasher or the token issuer failed
\* unexpectedly is answered 500 with exactly {success: false, message: 'Server
\* error'}; the failed call is the last call the request makes, and it is made once.
C10_UnexpectedFailureIs500 ==
    \A r \in Slots :
        FailedUnexpectedly(r)
            => /\ Done(r)
               /\ res[r] = [status |-> 500,
                            body |-> [success |-> FALSE, message |-> "Server error"]]
               /\ Len(log[r]) = 1
               /\ Raises(Last(calls[r]), log[r][1])
               /\ NoRepeats(calls[r])

\* the store failed under the ownership gate of an authenticated request
C10_Witness ==
    \E r \in Slots :
        /\ FailedUnexpectedly(r)
        /\ Last(ran[r]) = "checkOwnership"
        /\ req[r].user.defined
        /\ res[r].status = 500

\* ------------------------------------------------------------------ C11
\* slot r takes this step as a signup request
SignupStep(r) == req'[r].route = "POST /auth/signup" /\ pc'[r] # pc[r]

\* C11: a signup request changes the users table only in the step that answers it
\* 201: a signup answered 400 or 500 has left no row behind.
C11_FailedSignupLeavesNoUser ==
    [][\A r \in Slots :
          (SignupStep(r) /\ users' # users) => res'[r].status = 201]_vars

\* ------------------------------------------------------------------ C12
GetByIdStep(r) == req'[r].route = "GET /articles/:id" /\ pc'[r] # pc[r]

\* C12: every step of a GET /articles/:id request is a run of getArticleById, the
\* only function ever run for it, whatever token it carries; when its query answers,
\* an id with no article gets 404 'Article not found' and an id with an article
\* gets 200 with that article.
C12_GetByIdWithoutAuthentication ==
    [][\A r \in Slots :
          GetByIdStep(r)
              => /\ ran'[r] = <<"getArticleById">>
                 /\ pc'[r] = "done"
                 /\ ~FailsUnexpectedlyNow(r)
                      => IF ArticleExists(articles, req'[r].id)
                         THEN /\ res'[r].status = 200
                              /\ res'[r].body.success
                              /\ res'[r].body.data.article = RowOf(articles, req'[r].id)
                         ELSE res'[r] = Fail(404, "Article not found")]_vars

\* a request with a malformed token was answered 404 and one with no token 200
C12_Witness ==
    \E r, q \in Slots :
        /\ req[r].route = "GET /articles/:id" /\ req[r].token.kind = "malformed"
        /\ res[r] = Fail(404, "Article not found")
        /\ ~ArticleExists(articles, req[r].id)
        /\ req[q].route = "GET /articles/:id" /\ req[q].token.kind = "none"
        /\ res[q].status = 200
        /\ res[q].body.data.article.id = req[q].id

\* ------------------------------------------------------------------ C13
\* a field that is missing or empty
Missing(x) == x.t = "undefined" \/ x = Str("")

\* a signup without its username, email or password (a request without a body has none)
IncompleteSignup(r) ==
    /\ IsSignup(r)
    /\ \/ req[r].body = NoBody
       \/ Missing(req[r].body.username)
       \/ Missing(req[r].body.email)
       \/ Missing(req[r].body.password)

\* a login without its email or password
IncompleteLogin(r) ==
    /\ IsLogin(r)
    /\ \/ req[r].body = NoBody
       \/ Missing(req[r].body.email)
       \/ Missing(req[r].body.password)

\* C13: a signup whose username, email or password is missing or empty, and a login
\* whose email or password is missing or empty, is answered 400 in its first step,
\* having made no call to the store or the hasher.
C13_ValidationBeforeStore ==
    \A r \in Slots :
        (IncompleteSignup(r) \/ IncompleteLogin(r))
            => /\ Done(r)
               /\ res[r].status = 400
               /\ ~res[r].body.success
               /\ calls[r] = <<>>

\* ------------------------------------------------------------------ C14
\* summary is the first SummaryLength characters of content, then "..."
IsSummaryOf(summary, content) ==
    LET n == IF Len(content) < 150 THEN Len(content) ELSE 150 IN
    /\ Len(summary) = n + 3
    /\ SubSeq(summary, 1, n) = SubSeq(content, 1, n)
    /\ SubSeq(summary, n + 1, n + 3) = "..."

\* C14: in every reachable state the content and the summary of every row of the
\* articles table are strings, and the summary is the first 150 characters of that
\* row's content followed by '...'.
C14_SummaryFollowsContent ==
    \A i \in 1..Len(articles) :
        /\ IsString(articles[i].content)
        /\ IsString(articles[i].summary)
        /\ IsSummaryOf(articles[i].summary.v, articles[i].content.v)

\* an article posted with a short content was rewritten with one of 160 characters
C14_Witness ==
    \E r \in Slots :
        /\ req[r].route = "PUT /articles/:id" /\ res[r].status = 200
        /\ ArticleExists(articles, req[r].id)
        /\ RowOf(articles, req[r].id).content = Str(LongContent)
        /\ Len(LongContent) > 150
        /\ Len(RowOf(articles, req[r].id).summary.v) = 153

\* ------------------------------------------------------------------ C15
LoginStep(r) == req'[r].route = "POST /auth/login" /\ pc'[r] # pc[r]

\* the calls slot r makes in this step
CallsNow(r) == {calls'[r][i] : i \in (Len(calls[r]) + 1)..Len(calls'[r])}

\* C15: every step of a login request, whatever it answers, and every run of
\* checkOwnership, whatever it decides, leaves the users table and the articles
\* table as they were and sends no statement but a SELECT to the store.
C15_LoginAndGateReadOnly ==
    [][\A r \in Slots :
          (LoginStep(r) \/ Runs(r, "checkOwnership"))
              => /\ users' = users
                 /\ articles' = articles
                 /\ nextArticleId' = nextArticleId
                 /\ CallsNow(r) \subseteq {"SELECT users", "SELECT articles",
                                          "bcrypt.compare", "generateToken"}]_vars

\* a login was answered 200 and the gate has refused a non-author, on a store that
\* holds users and an article
C15_Witness ==
    \E l, r \in Slots :
        /\ IsLogin(l) /\ res[l].status = 200
        /\ Contains(ran[r], "checkOwnership") /\ res[r].status = 403
        /\ Len(users) > 0 /\ Len(articles) > 0

\* ------------------------------------------------------------------ C16
\* slot r is answered 200 by handler m in this step
Succeeds(r, m) == Runs(r, m) /\ pc'[r] = "done" /\ res'[r].status = 200

\* C16: in the step in which PUT /articles/:id is answered 200 'Article updated
\* successfully' a row with that id is in the table and gets the request's content,
\* and in the step in which DELETE /articles/:id is answered 200 'Article deleted
\* successfully' a row with that id leaves the table, whatever other requests did
\* between the request's ownership check and its statement.
C16_SuccessReflectsEffect ==
    [][\A r \in Slots :
          /\ Succeeds(r, "updateArticle")
                => /\ ArticleExists(articles, req'[r].id)
                   /\ ArticleExists(articles', req'[r].id)
                   /\ RowOf(articles', req'[r].id).content = req'[r].body.content
          /\ Succeeds(r, "deleteArticle")
                => /\ ArticleExists(articles, req'[r].id)
                   /\ ~ArticleExists(articles', req'[r].id)]_vars

\* ------------------------------------------------------------------ C17
Responded(r) == res[r] # NoResponse

\* what slot r may do in one step: nothing once it is answered; a run of
\* checkOwnership either answers or calls next, not both and not neither
C17_Step(r) ==
    /\ Responded(r) => res'[r] = res[r] /\ pc'[r] = pc[r] /\ ran'[r] = ran[r]
    /\ Runs(r, "checkOwnership")
          => \/ /\ res'[r] # NoResponse
                /\ pc'[r] = "done"
             \/ /\ res'[r] = NoResponse
                /\ pc'[r] = After(req'[r].route, "checkOwnership")

\* C17: every request that has arrived is eventually answered, and answered once:
\* a request is finished exactly when a response was sent for it, a response once
\* sent is never followed by another step of that request, and checkOwnership
\* either sends a response or calls next (every awaited call returning or failing).
C17_ExactlyOneResponse ==
    /\ [](\A r \in Slots : Done(r) <=> Responded(r))
    /\ [][\A r \in Slots : C17_Step(r)]_vars
    /\ \A r \in Slots : (pc[r] # "new") ~> Done(r)

\* an update went through both gates and its handler and was answered
C17_Witness ==
    \E r \in Slots :
        /\ ran[r] = <<"verifyJWT", "checkOwnership", "updateArticle">>
        /\ Done(r)
        /\ res[r].status = 200

====
